---- MODULE Spec2Model ----
(***************************************************************************)
(* Conflict detection and resolution of the Teams scheduling assistant     *)
(* (src/src/services/conflictResolutionService.ts) and the calendar        *)
(* provider it reads through (src/src/services/graphService.ts).           *)
(*                                                                         *)
(* Values.  Every string the service handles is a record [kind, v]:        *)
(*   kind = "email"  an attendee address, v its number;                    *)
(*   kind = "iso"    an ISO-8601 instant, v the minutes since 00:00 of day *)
(*                   0 (1970-01-01, a Thursday), one time zone throughout; *)
(*   kind = "text"   any other text (not a parsable date).                 *)
(* A Date object is an integer number of minutes, or NaN (Invalid Date).   *)
(***************************************************************************)
EXTENDS Integers, Sequences, FiniteSets, TLC

\* ------------------------------------------------------------ bounds
MaxAttendees == 2        \* longest attendee list of a request
MaxInstant == 3          \* hours from 13:00 that the overlap test is given
MaxOutage == 1           \* lookups that fail at the same time
MaxPieces == 2           \* pieces a classified text is made of
MaxProfiles == 2         \* names a profile may be given

\* ------------------------------------------------- program constants
MinutesPerHour == 60
MinutesPerDay == 1440
OffsetMinutes == 60      \* resolveConflict 'move1hour'
SearchDays == 7          \* findNextAvailableSlots: dayOffset < 7
FirstHour == 9           \* findNextAvailableSlots: hour = 9
LastHour == 18           \* findNextAvailableSlots: hour < 18
NextDaySlots == 3        \* rescheduleToNextDay: fallback cap
AlternativeSlots == 5    \* findAlternativeTimeSlots: cap
OptimalDays == 5         \* suggestOptimalTimes: dayOffset < 5
OptimalSlots == 3        \* suggestOptimalTimes: suggestions.length < 3
DefaultDuration == 60    \* suggestOptimalTimes: duration = 60
ViewInterval == 30       \* checkTimeSlotAvailability: availabilityViewInterval
BusinessStartHour == 9   \* getBusinessHours: startHour = 9
BusinessEndHour == 17    \* getBusinessHours: endHour = 17

\* ------------------------------------------------------------ values
NaN == -1

Email(n) == [kind |-> "email", v |-> n]
Iso(t) == [kind |-> "iso", v |-> t]
Text(n) == [kind |-> "text", v |-> n]

T(d, h, m) == d * MinutesPerDay + h * MinutesPerHour + m

\* new Date(s): a parsable instant, or Invalid Date
NewDate(s) == IF s.kind = "iso" THEN s.v ELSE NaN

\* A comparison that holds for equal dates too
DateLessOrEqual(a, b) == a # NaN /\ b # NaN /\ a <= b

\* Date < Date: every comparison with Invalid Date is false
DateLess(a, b) == a # NaN /\ b # NaN /\ a < b

\* date.getTime() + ms: NaN stays NaN
AddMinutes(d, m) == IF d = NaN \/ m = NaN THEN NaN ELSE d + m

\* a.getTime() - b.getTime()
Minus(a, b) == IF a = NaN \/ b = NaN THEN NaN ELSE a - b

\* date.setDate(date.getDate() + n): same time of day, n calendar days on
AddDays(d, n) == IF d = NaN THEN NaN ELSE d + n * MinutesPerDay

\* date.setHours(h, 0, 0, 0): h:00 of the date's calendar day
SetHours(d, h) == IF d = NaN THEN NaN
                  ELSE (d \div MinutesPerDay) * MinutesPerDay + h * MinutesPerHour

\* date.getDay(): 0 = Sunday ... 6 = Saturday; day 0 is a Thursday
GetDay(d) == ((d \div MinutesPerDay) + 4) % 7

\* JS arrays and the value undefined
Array(items) == [kind |-> "array", items |-> items]
Undefined == [kind |-> "undefined", items |-> << >>]
IsArray(a) == a.kind = "array"

\* ------------------------------------------------- calendar provider
\* The events Microsoft Graph may hold in the users' mailboxes.  showAs is
\* the digit getSchedule reports for the event in its availabilityView.
EventPool ==
  << [owner |-> 1, subject |-> Text(1), start |-> Iso(T(1, 14, 0)), end |-> Iso(T(1, 15, 0)), showAs |-> 1],
     [owner |-> 2, subject |-> Text(2), start |-> Iso(T(0, 15, 0)), end |-> Iso(T(0, 16, 0)), showAs |-> 3],
     [owner |-> 1, subject |-> Text(3), start |-> Iso(T(0, 0, 0)),  end |-> Iso(T(8, 0, 0)),  showAs |-> 2] >>

\* What the provider may answer to an event request outside its contract:
\* no events, or three events of which the first ends at 14:00 of day 0
StrayAnswers ==
  { << >>,
    << [subject |-> Text(6), start |-> Iso(T(0, 13, 0)), end |-> Iso(T(0, 14, 0))],
       [subject |-> Text(7), start |-> Iso(T(0, 14, 30)), end |-> Iso(T(0, 15, 30))],
       [subject |-> Text(8), start |-> Iso(T(1, 0, 0)), end |-> Iso(T(8, 0, 0))] >> }

\* The mailboxes the provider knows
Users == { EventPool[i].owner : i \in 1..Len(EventPool) }

Lookups == {"getCalendarEvents", "checkTimeSlotAvailability"} \X Users

VARIABLES
  mailbox,   \* provider: the indices of EventPool currently on the calendars
  stray,     \* provider: its answer to an event request outside its contract
  outage,    \* provider: the lookups <<operation, address>> that fail
  isInitialized, \* GraphService: whether the Graph client has been created
  op,        \* the handler that ran last, "idle" when none is pending
  input,     \* its argument
  output,    \* what it returned
  calls,     \* the provider requests it issued, in order
  at,        \* a detectConflicts in progress: its position and local variables
  inFlight,  \* the positions in calls of the requests not yet answered
  store      \* ProfileManager: the profiles and the name of the active one

vars ==
  << mailbox, stray, outage, isInitialized, op, input, output, calls, at, inFlight, store >>

Failed(request) == [ok |-> FALSE, value |-> << >>, request |-> request]
Returned(value, request) == [ok |-> TRUE, value |-> value, request |-> request]

\* The addresses an event request names, wherever it names them
Named(request) ==
  { s.v : s \in { x \in {request.startTime, request.endTime, request.who} : x.kind = "email" } }

\* A provider whose first request finds no Graph client
GetCalendarEventsCold(startTime, endTime, userId) ==
  LET request == [op |-> "getCalendarEvents", who |-> userId,
                  startTime |-> startTime, endTime |-> endTime]
  IN  IF ~isInitialized \/ (\E u \in Named(request) : <<"getCalendarEvents", u>> \in outage)
      THEN Failed(request)
      ELSE Returned(stray, request)

\* GET /users/{userId}/calendar/calendarView?startDateTime=..&endDateTime=..
\* A request inside Graph's contract (a mailbox and two instants) yields the
\* mailbox's events that intersect the view; any other request yields the
\* provider's stray answer.  A lookup in outage raises.
GetCalendarEvents(startTime, endTime, userId) ==
  LET request == [op |-> "getCalendarEvents", who |-> userId,
                  startTime |-> startTime, endTime |-> endTime]
      inContract == /\ userId.kind = "email" /\ userId.v \in Users
                    /\ startTime.kind = "iso" /\ endTime.kind = "iso"
      inView(i) == /\ i \in mailbox
                   /\ EventPool[i].owner = userId.v
                   /\ EventPool[i].start.v < endTime.v
                   /\ startTime.v < EventPool[i].end.v
      picked == SelectSeq([i \in 1..Len(EventPool) |-> i], inView)
      meetings == [k \in 1..Len(picked) |->
                     [subject |-> EventPool[picked[k]].subject,
                      start |-> EventPool[picked[k]].start,
                      end |-> EventPool[picked[k]].end]]
  IN  IF \E u \in Named(request) : <<"getCalendarEvents", u>> \in outage
      THEN Failed(request)
      ELSE IF inContract THEN Returned(meetings, request)
      ELSE Returned(stray, request)

\* getSchedule's availabilityView: one digit per ViewInterval of the window,
\* the strongest showAs of the mailbox's events in that interval
AvailabilityView(who, startT, endT) ==
  LET n == IF endT > startT THEN (endT - startT + ViewInterval - 1) \div ViewInterval ELSE 0
      digit(k) ==
        LET lo == startT + (k - 1) * ViewInterval
            hi == lo + ViewInterval
            hit == { i \in mailbox : /\ EventPool[i].owner = who
                                      /\ EventPool[i].start.v < hi
                                      /\ lo < EventPool[i].end.v }
        IN  IF hit = {} THEN 0
            ELSE CHOOSE d \in { EventPool[i].showAs : i \in hit } :
                   \A i \in hit : EventPool[i].showAs <= d
  IN  [k \in 1..n |-> digit(k)]

\* 0 = free, 1 = tentative, 2 = busy, 3 = out of office, 4 = working elsewhere
ParseFreebusy(availabilityView) ==
  LET includes(d) == \E k \in 1..Len(availabilityView) : availabilityView[k] = d
  IN  IF includes(2) \/ includes(3) THEN "busy"
      ELSE IF includes(1) THEN "tentative"
      ELSE IF includes(3) THEN "outOfOffice"
      ELSE "free"

\* POST /me/calendar/getSchedule for one attendee: one segment over the window
CheckTimeSlotAvailability(timeSlotData) ==
  LET attendeeEmail == timeSlotData.attendee
      request == [op |-> "checkTimeSlotAvailability", who |-> attendeeEmail,
                  startTime |-> timeSlotData.startTime, endTime |-> timeSlotData.endTime]
      inContract == /\ timeSlotData.startTime.kind = "iso"
                    /\ timeSlotData.endTime.kind = "iso"
                    /\ timeSlotData.startTime.v < timeSlotData.endTime.v
      known == attendeeEmail.kind = "email" /\ attendeeEmail.v \in Users
      view == IF known
              THEN AvailabilityView(attendeeEmail.v, timeSlotData.startTime.v, timeSlotData.endTime.v)
              ELSE << >>
  IN  IF known /\ <<"checkTimeSlotAvailability", attendeeEmail.v>> \in outage
      THEN Failed(request)
      ELSE IF ~inContract THEN Failed(request)
      ELSE Returned(<< [email |-> attendeeEmail,
                        freeBusyStatus |-> ParseFreebusy(view),
                        start |-> timeSlotData.startTime,
                        end |-> timeSlotData.endTime] >>, request)

\* ------------------------------------------------- conflict detector
\* date.toLocaleString(): the local date and time as text, "Invalid Date"
\* for an Invalid Date
ToLocaleString(d) == IF d = NaN THEN Text(0) ELSE [kind |-> "locale", v |-> d]

\* An overlap test that counts touching intervals
hasTimeOverlapTouching(start1, end1, start2, end2) ==
  LET startTime1 == NewDate(start1)
      endTime1 == NewDate(end1)
      startTime2 == NewDate(start2)
      endTime2 == NewDate(end2)
  IN  /\ startTime1 # NaN /\ endTime1 # NaN /\ startTime2 # NaN /\ endTime2 # NaN
      /\ startTime1 <= endTime2 /\ startTime2 <= endTime1

hasTimeOverlap(start1, end1, start2, end2) ==
  LET startTime1 == NewDate(start1)
      endTime1 == NewDate(end1)
      startTime2 == NewDate(start2)
      endTime2 == NewDate(end2)
  IN  DateLess(startTime1, endTime2) /\ DateLess(startTime2, endTime1)

MeetingConflict(attendee, event) ==
  [attendee |-> attendee, type |-> "meeting",
   time |-> << ToLocaleString(NewDate(event.start)), ToLocaleString(NewDate(event.end)) >>,
   details |-> event.subject]

\* for (const event of calendarEvents) if (hasTimeOverlap(..)) conflicts.push(..)
MeetingConflicts(attendee, startTime, endTime, calendarEvents) ==
  LET overlapping(event) == hasTimeOverlap(startTime, endTime, event.start, event.end)
      hits == SelectSeq(calendarEvents, overlapping)
  IN  [k \in 1..Len(hits) |-> MeetingConflict(attendee, hits[k])]

IsBusy(slot) == slot.freeBusyStatus # "free"

BusyConflict(attendee, slot) ==
  [attendee |-> attendee, type |-> "busy",
   time |-> << ToLocaleString(NewDate(slot.start)), ToLocaleString(NewDate(slot.end)) >>,
   details |-> slot.freeBusyStatus]

\* for (const slot of availability) if (slot.freeBusyStatus !== 'free') conflicts.push(..)
BusyConflicts(attendee, availability) ==
  LET busySlots == SelectSeq(availability, IsBusy)
  IN  [k \in 1..Len(busySlots) |-> BusyConflict(attendee, busySlots[k])]

\* The result of an operation of the service: its value and the provider
\* requests it issued
Result(value, issued) == [value |-> value, calls |-> issued]

\* A check that reports the busy status before the meetings
AfterAvailabilityBusyFirst(attendee, startTime, endTime, calendarEvents, availability) ==
  IF ~availability.ok
  THEN Result(<< >>, << calendarEvents.request, availability.request >>)
  ELSE Result(BusyConflicts(attendee, availability.value)
                \o MeetingConflicts(attendee, startTime, endTime, calendarEvents.value),
              << calendarEvents.request, availability.request >>)

\* checkAttendeeConflicts from the answer to its free/busy request on
AfterAvailability(attendee, startTime, endTime, calendarEvents, availability) ==
  IF ~availability.ok
  THEN Result(<< >>, << calendarEvents.request, availability.request >>)
  ELSE Result(MeetingConflicts(attendee, startTime, endTime, calendarEvents.value)
                \o BusyConflicts(attendee, availability.value),
              << calendarEvents.request, availability.request >>)

\* checkAttendeeConflicts from the answer to its event request on
AfterEvents(attendee, startTime, endTime, calendarEvents) ==
  IF ~calendarEvents.ok
  THEN Result(<< >>, << calendarEvents.request >>)
  ELSE AfterAvailability(attendee, startTime, endTime, calendarEvents,
         CheckTimeSlotAvailability(
           [attendee |-> attendee, startTime |-> startTime, endTime |-> endTime]))

\* A check that keeps the meeting conflicts it found when the free/busy
\* lookup fails
checkAttendeeConflictsKeeping(attendee, startTime, endTime) ==
  IF /\ GetCalendarEvents(attendee, startTime, endTime).ok
     /\ ~CheckTimeSlotAvailability([attendee |-> attendee, startTime |-> startTime,
                                    endTime |-> endTime]).ok
  THEN Result(MeetingConflicts(attendee, startTime, endTime,
                               GetCalendarEvents(attendee, startTime, endTime).value),
              AfterEvents(attendee, startTime, endTime,
                          GetCalendarEvents(attendee, startTime, endTime)).calls)
  ELSE AfterEvents(attendee, startTime, endTime,
                   GetCalendarEvents(attendee, startTime, endTime))

checkAttendeeConflicts(attendee, startTime, endTime) ==
  AfterEvents(attendee, startTime, endTime,
              GetCalendarEvents(attendee, startTime, endTime))

\* conflicts.push(...attendeeConflicts), and the requests in the order issued
Pushed(first, rest) == Result(first.value \o rest.value, first.calls \o rest.calls)

RECURSIVE AttendeeLoop(_, _, _, _)
AttendeeLoop(attendees, i, startTime, endTime) ==
  IF i > Len(attendees) THEN Result(<< >>, << >>)
  ELSE Pushed(checkAttendeeConflicts(attendees[i], startTime, endTime),
              AttendeeLoop(attendees, i + 1, startTime, endTime))

\* Whether a lookup of the detector raises for one of the attendees
Raises(attendees, startTime, endTime) ==
  \E i \in 1..Len(attendees) :
    \/ ~GetCalendarEvents(attendees[i], startTime, endTime).ok
    \/ ~CheckTimeSlotAvailability([attendee |-> attendees[i], startTime |-> startTime,
                                   endTime |-> endTime]).ok

\* A detector whose per-attendee errors reach its own catch, which returns []
detectConflictsAborting(meetingData) ==
  IF ~IsArray(meetingData.attendees) THEN Result(<< >>, << >>)
  ELSE IF Raises(meetingData.attendees.items, meetingData.startTime, meetingData.endTime)
  THEN Result(<< >>, << >>)
  ELSE AttendeeLoop(meetingData.attendees.items, 1,
                    meetingData.startTime, meetingData.endTime)

detectConflicts(meetingData) ==
  IF ~IsArray(meetingData.attendees) THEN Result(<< >>, << >>)
  ELSE AttendeeLoop(meetingData.attendees.items, 1,
                    meetingData.startTime, meetingData.endTime)

\* ------------------------------------------------- alternative search
\* The strings the service hands back as alternatives; Text(0) where a
\* string has no such part
Range(s, e) == [kind |-> "range", start |-> ToLocaleString(s), end |-> ToLocaleString(e)]
Time(s) == [kind |-> "time", start |-> ToLocaleString(s), end |-> Text(0)]
Placeholder == [kind |-> "text", start |-> Text(0), end |-> Text(0)]

\* date.toISOString() raises a RangeError on an Invalid Date
CanISOString(d) == d # NaN
ToISOString(d) == Iso(d)

\* ...originalData with startTime and endTime replaced
Moved(originalData, newStart, newEnd) ==
  [originalData EXCEPT !.startTime = ToISOString(newStart), !.endTime = ToISOString(newEnd)]

\* A search that takes every window it tries
NoConflictsIgnored(conflicts) == TRUE

NoConflicts(conflicts) == Len(conflicts) = 0

\* A search that never stops at its cap
MoreSlotsUncapped(alternatives, maxSlots) == TRUE

\* alternatives.length < maxSlots, the guard of both loops of the search
MoreSlots(alternatives, maxSlots) == Len(alternatives) < maxSlots

\* The state of a search loop: the alternatives found, the requests issued,
\* and whether an exception left the loop
Loop(alternatives, issued, threw) ==
  [alternatives |-> alternatives, calls |-> issued, threw |-> threw]

\* A search loop that puts a found window in front of the earlier ones
TriedPrepending(acc, slotStart, slotEnd, conflicts) ==
  Loop(IF NoConflicts(conflicts.value)
       THEN << Range(slotStart, slotEnd) >> \o acc.alternatives
       ELSE acc.alternatives,
       acc.calls \o conflicts.calls, FALSE)

\* if (conflicts.length === 0) alternatives.push(`${slotStart} - ${slotEnd}`)
Tried(acc, slotStart, slotEnd, conflicts) ==
  Loop(IF NoConflicts(conflicts.value)
       THEN Append(acc.alternatives, Range(slotStart, slotEnd))
       ELSE acc.alternatives,
       acc.calls \o conflicts.calls, FALSE)

\* A search that passes over a window when a lookup for it failed
TrySlotChecked(originalData, slotStart, slotEnd, acc) ==
  IF ~CanISOString(slotStart) \/ ~CanISOString(slotEnd)
  THEN Loop(acc.alternatives, acc.calls, TRUE)
  ELSE IF /\ IsArray(originalData.attendees)
          /\ Raises(originalData.attendees.items, ToISOString(slotStart), ToISOString(slotEnd))
  THEN Loop(acc.alternatives,
            acc.calls \o detectConflicts(Moved(originalData, slotStart, slotEnd)).calls, FALSE)
  ELSE Tried(acc, slotStart, slotEnd,
             detectConflicts(Moved(originalData, slotStart, slotEnd)))

\* One window of the broad search; toISOString raises before any request.
\* A lookup that fails while the window is checked leaves no trace in the
\* list detectConflicts returns
TrySlot(originalData, slotStart, slotEnd, acc) ==
  IF ~CanISOString(slotStart) \/ ~CanISOString(slotEnd)
  THEN Loop(acc.alternatives, acc.calls, TRUE)
  ELSE Tried(acc, slotStart, slotEnd,
             detectConflicts(Moved(originalData, slotStart, slotEnd)))

RECURSIVE HourLoop(_, _, _, _, _, _)
HourLoop(originalData, duration, searchDate, hour, maxSlots, acc) ==
  IF acc.threw \/ ~(hour < LastHour /\ MoreSlots(acc.alternatives, maxSlots)) THEN acc
  ELSE HourLoop(originalData, duration, searchDate, hour + 1, maxSlots,
                TrySlot(originalData, SetHours(searchDate, hour),
                        AddMinutes(SetHours(searchDate, hour), duration), acc))

RECURSIVE DayLoop(_, _, _, _, _)
DayLoop(originalData, duration, dayOffset, maxSlots, acc) ==
  IF acc.threw \/ ~(dayOffset < SearchDays /\ MoreSlots(acc.alternatives, maxSlots)) THEN acc
  ELSE DayLoop(originalData, duration, dayOffset + 1, maxSlots,
               HourLoop(originalData, duration,
                        AddDays(NewDate(originalData.startTime), dayOffset),
                        FirstHour, maxSlots, acc))

\* A search that hands back its placeholder when it found nothing
SearchedPlaceholder(done) ==
  IF done.threw \/ done.alternatives = << >> THEN Result(<< Placeholder >>, done.calls)
  ELSE Result(done.alternatives, done.calls)

\* return alternatives, or the catch of findNextAvailableSlots
Searched(done) ==
  IF done.threw THEN Result(<< Placeholder >>, done.calls)
  ELSE Result(done.alternatives, done.calls)

findNextAvailableSlots(originalData, maxSlots) ==
  Searched(DayLoop(originalData,
                   Minus(NewDate(originalData.endTime), NewDate(originalData.startTime)),
                   0, maxSlots, Loop(<< >>, << >>, FALSE)))

\* ------------------------------------------------- resolution policy
Resolution(type, newTime, alternatives, message) ==
  [type |-> type, newTime |-> newTime, alternatives |-> alternatives, message |-> message]

\* What a strategy hands to resolveConflict: a resolution, or an exception
Resolved(resolution, issued) == [threw |-> FALSE, value |-> resolution, calls |-> issued]
Thrown(issued) ==
  [threw |-> TRUE, value |-> Resolution("none", << >>, << >>, ""), calls |-> issued]

\* An offset strategy whose fallback suggests the conflicting window again
OffsetOutcomeStale(newStart, newEnd, newConflicts) ==
  IF Len(newConflicts.value) = 0
  THEN Resolved(Resolution("reschedule", << Range(newStart, newEnd) >>, << >>,
                           "Successfully rescheduled to"),
                newConflicts.calls)
  ELSE Resolved(Resolution("alternative", << >>,
                           << Time(newStart), Time(AddMinutes(newStart, 60)) >>,
                           "The suggested time also has conflicts. Please try a different time."),
                newConflicts.calls)

\* rescheduleByOffset from the conflicts of the moved window on
OffsetOutcome(newStart, newEnd, newConflicts) ==
  IF Len(newConflicts.value) = 0
  THEN Resolved(Resolution("reschedule", << Range(newStart, newEnd) >>, << >>,
                           "Successfully rescheduled to"),
                newConflicts.calls)
  ELSE Resolved(Resolution("alternative", << >>,
                           << Time(AddMinutes(newStart, 60)), Time(AddMinutes(newStart, 120)) >>,
                           "The suggested time also has conflicts. Please try a different time."),
                newConflicts.calls)

rescheduleByOffset(originalData, offsetMinutes) ==
  LET newStart == AddMinutes(NewDate(originalData.startTime), offsetMinutes)
      newEnd == AddMinutes(NewDate(originalData.endTime), offsetMinutes)
  IN  IF ~CanISOString(newStart) \/ ~CanISOString(newEnd) THEN Thrown(<< >>)
      ELSE OffsetOutcome(newStart, newEnd,
                         detectConflicts(Moved(originalData, newStart, newEnd)))

\* alternatives: await this.findNextAvailableSlots(originalData, 3)
NextDayFallback(newConflicts, alternatives) ==
  Resolved(Resolution("alternative", << >>, alternatives.value,
                      "Tomorrow also has conflicts. Here are some alternatives:"),
           newConflicts.calls \o alternatives.calls)

\* rescheduleToNextDay from the conflicts of the next day's window on
NextDayOutcome(originalData, nextDayStart, nextDayEnd, newConflicts) ==
  IF Len(newConflicts.value) = 0
  THEN Resolved(Resolution("reschedule", << Range(nextDayStart, nextDayEnd) >>, << >>,
                           "Successfully rescheduled to tomorrow at"),
                newConflicts.calls)
  ELSE NextDayFallback(newConflicts, findNextAvailableSlots(originalData, NextDaySlots))

\* A next-day strategy that moves a Saturday or Sunday on to Monday
rescheduleToNextDaySkipping(originalData) ==
  LET originalStart == NewDate(originalData.startTime)
      days == IF originalStart = NaN THEN 1
              ELSE IF GetDay(AddDays(originalStart, 1)) = 6 THEN 3
              ELSE IF GetDay(AddDays(originalStart, 1)) = 0 THEN 2
              ELSE 1
      nextDayStart == AddDays(originalStart, days)
      nextDayEnd == AddDays(NewDate(originalData.endTime), days)
  IN  IF ~CanISOString(nextDayStart) \/ ~CanISOString(nextDayEnd) THEN Thrown(<< >>)
      ELSE NextDayOutcome(originalData, nextDayStart, nextDayEnd,
                          detectConflicts(Moved(originalData, nextDayStart, nextDayEnd)))

rescheduleToNextDay(originalData) ==
  LET nextDayStart == AddDays(NewDate(originalData.startTime), 1)
      nextDayEnd == AddDays(NewDate(originalData.endTime), 1)
  IN  IF ~CanISOString(nextDayStart) \/ ~CanISOString(nextDayEnd) THEN Thrown(<< >>)
      ELSE NextDayOutcome(originalData, nextDayStart, nextDayEnd,
                          detectConflicts(Moved(originalData, nextDayStart, nextDayEnd)))

\* return { type: 'alternative', message, alternatives }
Alternatives(alternatives) ==
  Resolved(Resolution("alternative", << >>, alternatives.value,
                      "Found these alternative time slots when everyone is available:"),
           alternatives.calls)

findAlternativeTimeSlots(originalData) ==
  Alternatives(findNextAvailableSlots(originalData, AlternativeSlots))

\* A policy whose catch hands the exception on
CaughtRethrowing(strategy) == Result(strategy.value, strategy.calls)

\* The catch of resolveConflict
Caught(strategy) ==
  IF strategy.threw
  THEN Result(Resolution("force", << >>, << >>, "Unable to resolve conflicts automatically"),
              strategy.calls)
  ELSE Result(strategy.value, strategy.calls)

\* A policy whose default branch tries the offset strategy first
resolveConflictEager(conflictData) ==
  Caught(CASE conflictData.resolution = "tomorrow" ->
                rescheduleToNextDay(conflictData.originalData)
           [] conflictData.resolution = "findAlternative" ->
                findAlternativeTimeSlots(conflictData.originalData)
           [] OTHER -> rescheduleByOffset(conflictData.originalData, OffsetMinutes))

\* const { resolution, originalData } = conflictData raises inside the try
\* when there is no conflictData
resolveConflict(conflictData) ==
  Caught(CASE "resolution" \notin DOMAIN conflictData -> Thrown(<< >>)
           [] conflictData.resolution = "move1hour" ->
                rescheduleByOffset(conflictData.originalData, OffsetMinutes)
           [] conflictData.resolution = "tomorrow" ->
                rescheduleToNextDay(conflictData.originalData)
           [] conflictData.resolution = "findAlternative" ->
                findAlternativeTimeSlots(conflictData.originalData)
           [] OTHER -> Resolved(Resolution("force", << >>, << >>,
                                           "Meeting will be scheduled despite conflicts"),
                                << >>))

\* ------------------------------------------------- preferred hours
preferredHours == << 10, 14, 16 >>

\* One preferred hour: the slot is tried unless the loop has been left by
\* break (suggestions.length >= 3)
TryHour(attendees, slotStart, slotEnd, acc) ==
  Tried(acc, slotStart, slotEnd,
        detectConflicts([attendees |-> attendees,
                         startTime |-> ToISOString(slotStart),
                         endTime |-> ToISOString(slotEnd)]))

RECURSIVE PreferredLoop(_, _, _, _, _)
PreferredLoop(attendees, duration, searchDate, k, acc) ==
  IF k > Len(preferredHours) \/ Len(acc.alternatives) >= OptimalSlots THEN acc
  ELSE PreferredLoop(attendees, duration, searchDate, k + 1,
                     TryHour(attendees, SetHours(searchDate, preferredHours[k]),
                             AddMinutes(SetHours(searchDate, preferredHours[k]), duration),
                             acc))

\* A search that takes Saturdays and Sundays too
IsWeekendNever(searchDate) == FALSE

IsWeekend(searchDate) == GetDay(searchDate) = 0 \/ GetDay(searchDate) = 6

RECURSIVE OptimalDayLoop(_, _, _, _, _)
OptimalDayLoop(attendees, duration, now, dayOffset, acc) ==
  IF ~(dayOffset < OptimalDays /\ MoreSlots(acc.alternatives, OptimalSlots)) THEN acc
  ELSE OptimalDayLoop(attendees, duration, now, dayOffset + 1,
                      IF IsWeekend(AddDays(now, dayOffset)) THEN acc
                      ELSE PreferredLoop(attendees, duration, AddDays(now, dayOffset), 1, acc))

\* now is the clock reading of new Date()
suggestOptimalTimes(attendees, duration, now) ==
  Searched(OptimalDayLoop(attendees, duration, now, 0, Loop(<< >>, << >>, FALSE)))

\* ------------------------------------------------- date and time utilities
\* DateTimeUtils.generateTimeSlots: while (current < end) { slots.push(current);
\* current.setMinutes(current.getMinutes() + intervalMinutes) }
RECURSIVE SlotLoop(_, _, _, _)
SlotLoop(current, end, intervalMinutes, slots) ==
  IF ~DateLess(current, end) THEN slots
  ELSE SlotLoop(AddMinutes(current, intervalMinutes), end, intervalMinutes,
                Append(slots, current))

generateTimeSlots(date, startHour, endHour, intervalMinutes) ==
  SlotLoop(SetHours(date, startHour), SetHours(date, endHour), intervalMinutes, << >>)

\* ------------------------------------------------- requests
RECURSIVE ListsUpTo(_)
ListsUpTo(n) ==
  IF n = 0 THEN { << >> }
  ELSE LET shorter == ListsUpTo(n - 1)
       IN  shorter \cup { Append(l, Email(u)) : l \in { x \in shorter : Len(x) = n - 1 }, u \in Users }

AttendeeLists == ListsUpTo(MaxAttendees)

\* Proposed windows: the 14:00 hour of Thursday, 90 minutes from 09:00 of
\* Thursday, half an hour on Friday afternoon, a window that ends before it
\* starts, and a start that is no date.  No window is one minute backwards
\* (that difference is the number this model uses for NaN).
Windows ==
  { << Iso(T(0, 14, 0)), Iso(T(0, 15, 0)) >>,
    << Iso(T(0, 9, 0)), Iso(T(0, 10, 30)) >>,
    << Iso(T(1, 14, 0)), Iso(T(1, 14, 30)) >>,
    << Iso(T(0, 15, 0)), Iso(T(0, 14, 0)) >>,
    << Text(9), Iso(T(0, 15, 0)) >> }

MeetingData ==
  { [startTime |-> w[1], endTime |-> w[2], attendees |-> Array(l)] :
      w \in Windows, l \in AttendeeLists }
  \cup { [startTime |-> Iso(T(0, 14, 0)), endTime |-> Iso(T(0, 15, 0)), attendees |-> Undefined] }

Resolutions == {"move1hour", "tomorrow", "findAlternative", "force"}

Durations == {30, DefaultDuration}

\* Clock readings: Thursday morning, Friday noon, Saturday noon
Clock == { T(0, 8, 0), T(1, 12, 0), T(2, 12, 0) }

\* Arguments of hasTimeOverlap: the hours from 13:00 of day 0, and a text
Instants == { Iso(T(0, 13 + k, 0)) : k \in 0..MaxInstant } \cup { Text(9) }

\* Arguments of generateTimeSlots: the defaults 9, 17 and 30, and others
StartHours == {9, 13}
EndHours == {16, 17}
Intervals == {30, 45, 90}

\* ------------------------------------------------- state machine
Idle == << >>

\* No detectConflicts is suspended at an await
NotRunning == [i |-> 0, phase |-> "none", conflicts |-> << >>]

\* activeProfile: null
NoProfile == 0

\* The store of a first start: no profile file to load
EmptyStore == [profiles |-> << >>, activeProfile |-> NoProfile]

Init ==
  /\ store = EmptyStore
  /\ mailbox = {}
  /\ stray = << >>
  /\ outage = {}
  /\ isInitialized = FALSE
  /\ op = "idle"
  /\ input = Idle
  /\ output = Idle
  /\ calls = << >>
  /\ at = NotRunning
  /\ inFlight = {}

\* Someone books or cancels a meeting in a mailbox
MailboxChange ==
  /\ op = "idle"
  /\ \E i \in 1..Len(EventPool) :
       mailbox' = IF i \in mailbox THEN mailbox \ {i} ELSE mailbox \cup {i}
  /\ UNCHANGED << store, stray, outage, isInitialized, op, input, output, calls, at, inFlight >>

\* A lookup starts or stops failing (network, token, permission)
OutageChange ==
  /\ op = "idle"
  /\ \E l \in Lookups :
       /\ l \in outage \/ Cardinality(outage) < MaxOutage
       /\ outage' = IF l \in outage THEN outage \ {l} ELSE outage \cup {l}
  /\ UNCHANGED << store, mailbox, stray, isInitialized, op, input, output, calls, at, inFlight >>

StrayChange ==
  /\ op = "idle"
  /\ \E a \in StrayAnswers \ {stray} : stray' = a
  /\ UNCHANGED << store, mailbox, outage, isInitialized, op, input, output, calls, at, inFlight >>

\* A handler that books the meeting when it has rescheduled it
RanBooking(name, arg, result) ==
  /\ op' = name
  /\ input' = arg
  /\ output' = result.value
  /\ calls' = result.calls
  /\ isInitialized' = (isInitialized \/ Len(result.calls) > 0)
  /\ mailbox' = IF name = "resolveConflict" /\ result.value.type = "reschedule"
                THEN mailbox \cup {1} ELSE mailbox
  /\ UNCHANGED << store, stray, outage, at, inFlight >>

\* A handler has run; the first provider request of the process has created
\* the Graph client (ensureInitialized)
Ran(name, arg, result) ==
  /\ op' = name
  /\ input' = arg
  /\ output' = result.value
  /\ calls' = result.calls
  /\ isInitialized' = (isInitialized \/ Len(result.calls) > 0)
  /\ UNCHANGED << store, mailbox, stray, outage, at, inFlight >>

DetectConflicts ==
  /\ op = "idle"
  /\ \E meetingData \in MeetingData :
       Ran("detectConflicts", meetingData, detectConflicts(meetingData))

ResolveConflict ==
  /\ op = "idle"
  /\ \E resolution \in Resolutions, originalData \in MeetingData :
       LET conflictData == [resolution |-> resolution, originalData |-> originalData]
       IN  Ran("resolveConflict", conflictData, resolveConflict(conflictData))

SuggestOptimalTimes ==
  /\ op = "idle"
  /\ \E attendees \in AttendeeLists, duration \in Durations, now \in Clock :
       Ran("suggestOptimalTimes",
           [attendees |-> Array(attendees), duration |-> duration, now |-> now],
           suggestOptimalTimes(Array(attendees), duration, now))

GenerateTimeSlots ==
  /\ op = "idle"
  /\ \E date \in Clock, startHour \in StartHours, endHour \in EndHours,
        intervalMinutes \in Intervals :
       Ran("generateTimeSlots",
           [date |-> date, startHour |-> startHour, endHour |-> endHour,
            intervalMinutes |-> intervalMinutes],
           Result(generateTimeSlots(date, startHour, endHour, intervalMinutes), << >>))

\* The caller has taken the result; nothing of the call remains
Respond ==
  /\ op # "idle"
  /\ at.phase \in {"none", "returned"}
  /\ at' = NotRunning
  /\ inFlight' = {}
  /\ op' = "idle"
  /\ input' = Idle
  /\ output' = Idle
  /\ calls' = << >>
  /\ UNCHANGED << store, mailbox, stray, outage, isInitialized >>

Next ==
  \/ MailboxChange
  \/ OutageChange
  \/ StrayChange
  \/ DetectConflicts
  \/ ResolveConflict
  \/ SuggestOptimalTimes
  \/ GenerateTimeSlots
  \/ Respond

Spec == Init /\ [][Next]_vars

\* The overlap test on its own, applied to every four arguments
HasTimeOverlap ==
  /\ op = "idle"
  /\ \E start1 \in Instants, end1 \in Instants, start2 \in Instants, end2 \in Instants :
       Ran("hasTimeOverlap",
           [start1 |-> start1, end1 |-> end1, start2 |-> start2, end2 |-> end2],
           Result(hasTimeOverlap(start1, end1, start2, end2), << >>))

OverlapNext ==
  \/ HasTimeOverlap
  \/ Respond

OverlapSpec == Init /\ [][OverlapNext]_vars

\* ------------------------------------------------- detectConflicts, await by await
\* The same detector with every await a step of its own.  at.i is the
\* position of the for-of loop in the attendee list, at.conflicts the local
\* list of checkAttendeeConflicts, output the list of detectConflicts.
Position(i, phase, conflicts) == [i |-> i, phase |-> phase, conflicts |-> conflicts]

EventsRequest(attendee, startTime, endTime) ==
  GetCalendarEvents(attendee, startTime, endTime).request

AvailabilityRequest(attendee, startTime, endTime) ==
  [op |-> "checkTimeSlotAvailability", who |-> attendee,
   startTime |-> startTime, endTime |-> endTime]

\* const conflicts = []; the attendees test; entry into the loop
CallDetectConflicts ==
  /\ op = "idle"
  /\ \E meetingData \in MeetingData :
       /\ input' = meetingData
       /\ at' = IF IsArray(meetingData.attendees) THEN Position(1, "loop", << >>)
                ELSE Position(0, "returned", << >>)
  /\ op' = "detectConflicts"
  /\ output' = << >>
  /\ calls' = << >>
  /\ UNCHANGED << store, mailbox, stray, outage, isInitialized, inFlight >>

\* A detector that sends the free/busy request along with the event request
RequestEventsTogether ==
  /\ op = "detectConflicts"
  /\ at.phase = "loop"
  /\ at.i <= Len(input.attendees.items)
  /\ calls' = calls \o << EventsRequest(input.attendees.items[at.i], input.startTime, input.endTime),
                          AvailabilityRequest(input.attendees.items[at.i], input.startTime,
                                              input.endTime) >>
  /\ inFlight' = inFlight \cup {Len(calls) + 1, Len(calls) + 2}
  /\ isInitialized' = TRUE
  /\ at' = Position(at.i, "awaitEvents", << >>)
  /\ UNCHANGED << store, mailbox, stray, outage, op, input, output >>

\* await this.graphService.getCalendarEvents(attendee, startTime, endTime)
RequestEvents ==
  /\ op = "detectConflicts"
  /\ at.phase = "loop"
  /\ at.i <= Len(input.attendees.items)
  /\ calls' = Append(calls, EventsRequest(input.attendees.items[at.i],
                                          input.startTime, input.endTime))
  /\ inFlight' = inFlight \cup {Len(calls) + 1}
  /\ isInitialized' = TRUE
  /\ at' = Position(at.i, "awaitEvents", << >>)
  /\ UNCHANGED << store, mailbox, stray, outage, op, input, output >>

\* The answer arrives: the overlapping events are pushed to the local list,
\* or the catch of checkAttendeeConflicts returns [] and the loop goes on
EventsAnswered ==
  /\ op = "detectConflicts"
  /\ at.phase = "awaitEvents"
  /\ LET attendee == input.attendees.items[at.i]
         calendarEvents == GetCalendarEvents(attendee, input.startTime, input.endTime)
     IN  at' = IF calendarEvents.ok
               THEN Position(at.i, "availability",
                             MeetingConflicts(attendee, input.startTime, input.endTime,
                                              calendarEvents.value))
               ELSE Position(at.i + 1, "loop", << >>)
  /\ inFlight' = inFlight \ {Len(calls)}
  /\ UNCHANGED << store, mailbox, stray, outage, isInitialized, op, input, output, calls >>

\* await this.graphService.checkTimeSlotAvailability({attendee, startTime, endTime})
RequestAvailability ==
  /\ op = "detectConflicts"
  /\ at.phase = "availability"
  /\ calls' = Append(calls, AvailabilityRequest(input.attendees.items[at.i],
                                                input.startTime, input.endTime))
  /\ inFlight' = inFlight \cup {Len(calls) + 1}
  /\ at' = Position(at.i, "awaitAvailability", at.conflicts)
  /\ UNCHANGED << store, mailbox, stray, outage, isInitialized, op, input, output >>

\* The answer arrives: the busy segments are pushed, the local list is
\* returned and pushed to the list of detectConflicts; or the catch returns []
AvailabilityAnswered ==
  /\ op = "detectConflicts"
  /\ at.phase = "awaitAvailability"
  /\ LET attendee == input.attendees.items[at.i]
         availability == CheckTimeSlotAvailability(
                           [attendee |-> attendee, startTime |-> input.startTime,
                            endTime |-> input.endTime])
     IN  output' = IF availability.ok
                   THEN output \o at.conflicts \o BusyConflicts(attendee, availability.value)
                   ELSE output
  /\ at' = Position(at.i + 1, "loop", << >>)
  /\ inFlight' = inFlight \ {Len(calls)}
  /\ UNCHANGED << store, mailbox, stray, outage, isInitialized, op, input, calls >>

\* return conflicts
ReturnConflicts ==
  /\ op = "detectConflicts"
  /\ at.phase = "loop"
  /\ at.i > Len(input.attendees.items)
  /\ at' = Position(at.i, "returned", << >>)
  /\ UNCHANGED << store, mailbox, stray, outage, isInitialized, op, input, output, calls, inFlight >>

SequentialNext ==
  \/ MailboxChange
  \/ OutageChange
  \/ CallDetectConflicts
  \/ RequestEvents
  \/ EventsAnswered
  \/ RequestAvailability
  \/ AvailabilityAnswered
  \/ ReturnConflicts
  \/ Respond

SequentialSpec == Init /\ [][SequentialNext]_vars

\* ------------------------------------------------- business hours
\* An argument the caller left out
NoArgument == -2

\* A parameter with a default value
OrDefault(argument, default) == IF argument = NoArgument THEN default ELSE argument

\* DateTimeUtils.getBusinessHours(date, startHour = 9, endHour = 17)
getBusinessHours(date, startHour, endHour) ==
  [start |-> SetHours(date, OrDefault(startHour, BusinessStartHour)),
   end |-> SetHours(date, OrDefault(endHour, BusinessEndHour))]

\* Dates: three days, at midnight, in the morning, at noon and late at night

HourArguments == {NoArgument, 8, 9, 13, 17, 18}

GetBusinessHours ==
  /\ op = "idle"
  /\ \E date \in { T(d, h, 0) : d \in 0..2, h \in {0, 8, 12, 23} }, startHour \in HourArguments, endHour \in HourArguments :
       Ran("getBusinessHours",
           [date |-> date, startHour |-> startHour, endHour |-> endHour],
           Result(getBusinessHours(date, startHour, endHour), << >>))

BusinessNext ==
  \/ GetBusinessHours
  \/ Respond

BusinessSpec == Init /\ [][BusinessNext]_vars

\* ------------------------------------------------- MCP tool calls
\* A tool name is its words and what stands between them: '_' in the names
\* the server registers
ToolName(parts) == [parts |-> parts, seps |-> [k \in 1..(Len(parts) - 1) |-> "_"]]

RegisteredTools ==
  { ToolName(<< "schedule", "meeting" >>), ToolName(<< "check", "availability" >>),
    ToolName(<< "find", "available", "rooms" >>), ToolName(<< "cancel", "meeting" >>),
    ToolName(<< "update", "meeting" >>), ToolName(<< "get", "my", "calendar" >>),
    ToolName(<< "resolve", "conflicts" >>) }

resolve_conflicts == ToolName(<< "resolve", "conflicts" >>)

\* Names no tool has
UnknownTools == { ToolName(<< "ping" >>), ToolName(<< "delete", "all", "meetings" >>) }

\* What a tool handler hands to the request handler: a response, or an Error
\* whose message holds some of the words formatUserError looks for
ToolResult(text, issued) ==
  [threw |-> FALSE, text |-> text, words |-> {}, calls |-> issued]
ToolError(words, issued) ==
  [threw |-> TRUE, text |-> [kind |-> "none", options |-> << >>], words |-> words,
   calls |-> issued]

\* toolName.replace('_', ' '): the first '_' only
ReplaceFirst(toolName) ==
  [toolName EXCEPT !.seps = [k \in 1..Len(toolName.seps) |->
                               IF k = 1 THEN " " ELSE toolName.seps[k]]]

\* formatUserError: the first test that matches decides the message
formatUserError(toolName, words) ==
  [base |-> "Failed to execute", tool |-> ReplaceFirst(toolName),
   detail |-> IF words \cap {"authentication", "401"} # {} THEN "Authentication required."
              ELSE IF words \cap {"permission", "403"} # {} THEN "Insufficient permissions."
              ELSE IF words \cap {"not found", "404"} # {}
                   THEN "The requested resource was not found."
              ELSE IF "validation" \in words THEN "Invalid input parameters."
              ELSE IF words \cap {"network", "timeout"} # {} THEN "Network error."
              ELSE "error.message"]

\* The argument handleResolveConflicts builds for findAlternativeTimeSlots: it
\* has no startTime and no endTime
SearchRequest(args) ==
  [attendees |-> Array([k \in 1..Len(args.attendeeEmails.items) |->
                          [kind |-> "object", v |-> args.attendeeEmails.items[k]]]),
   duration |-> args.duration, preferredStart |-> args.preferredStartTime,
   timeRange |-> args.timeRange, startTime |-> Undefined, endTime |-> Undefined]

\* handleResolveConflicts from the answer of the service on: the answer has
\* a length and a map method when it is an array; the text is the message
\* that none was found, or Option k: startTime to endTime for each slot; the
\* catch throws a new Error('Failed to resolve conflicts: ...')
AfterSuggestions(suggestions) ==
  IF suggestions.threw THEN ToolError({}, suggestions.calls)
  ELSE IF ~("kind" \in DOMAIN suggestions.value /\ suggestions.value.kind = "array")
  THEN ToolError({}, suggestions.calls)
  ELSE IF Len(suggestions.value.items) = 0 THEN ToolResult([kind |-> "none found", options |-> << >>], suggestions.calls)
  ELSE ToolResult([kind |-> "options", options |-> suggestions.value.items],
                  suggestions.calls)

handleResolveConflicts(args) ==
  IF ~IsArray(args.attendeeEmails) THEN ToolError({}, << >>)
  ELSE AfterSuggestions(findAlternativeTimeSlots(SearchRequest(args)))

\* A request handler that answers an unknown tool without the error flag
AnsweredLenient(name, handled) ==
  IF name \in RegisteredTools /\ handled.threw
  THEN Result([text |-> formatUserError(name, handled.words), isError |-> TRUE], handled.calls)
  ELSE Result([text |-> handled.text, isError |-> FALSE], handled.calls)

\* The try and the catch of the request handler, from the handler's result on
Answered(name, handled) ==
  IF handled.threw
  THEN Result([text |-> formatUserError(name, handled.words), isError |-> TRUE], handled.calls)
  ELSE Result([text |-> handled.text, isError |-> FALSE], handled.calls)

\* The switch of the request handler.  outcome is what the handlers of the
\* six other tools do with the arguments
callTool(name, args, outcome) ==
  Answered(name,
           IF name = resolve_conflicts THEN handleResolveConflicts(args)
           ELSE IF name \in RegisteredTools THEN outcome
           ELSE ToolError({}, << >>))

\* Arguments of resolve_conflicts: the documented ones, and none
ResolveArguments ==
  { [attendeeEmails |-> Array(l), duration |-> d, preferredStartTime |-> p,
     timeRange |-> r] :
      l \in AttendeeLists, d \in Durations,
      p \in {Undefined, Iso(T(0, 14, 0))}, r \in {Undefined, Text(4)} }
  \cup { [attendeeEmails |-> Undefined, duration |-> DefaultDuration,
          preferredStartTime |-> Undefined, timeRange |-> Undefined] }

\* What a handler of the six other tools may do
HandlerOutcomes ==
  { ToolResult([kind |-> "done", options |-> << >>], << >>) }
  \cup { ToolError(w, << >>) :
           w \in { {}, {"authentication"}, {"403"}, {"not found"}, {"validation"},
                   {"timeout"}, {"permission", "network"} } }

CallTool ==
  /\ op = "idle"
  /\ \E name \in RegisteredTools \cup UnknownTools, args \in ResolveArguments,
        outcome \in HandlerOutcomes :
       /\ name = resolve_conflicts => outcome = ToolError({}, << >>)
       /\ name # resolve_conflicts =>
            args = [attendeeEmails |-> Undefined, duration |-> DefaultDuration,
                    preferredStartTime |-> Undefined, timeRange |-> Undefined]
       /\ name \in UnknownTools => outcome = ToolError({}, << >>)
       /\ Ran("callTool", [name |-> name, arguments |-> args, outcome |-> outcome],
              callTool(name, args, outcome))

ToolNext ==
  \/ MailboxChange
  \/ OutageChange
  \/ CallTool
  \/ Respond

ToolSpec == Init /\ [][ToolNext]_vars

\* ------------------------------------------------- urgency of a text
\* A text is the sequence of its characters
UpperCase == << "A", "B", "C", "D", "E", "F", "G", "H", "I", "J", "K", "L", "M", "N", "O", "P", "Q", "R", "S", "T", "U", "V", "W", "X", "Y", "Z" >>
LowerCase == << "a", "b", "c", "d", "e", "f", "g", "h", "i", "j", "k", "l", "m", "n", "o", "p", "q", "r", "s", "t", "u", "v", "w", "x", "y", "z" >>

\* A character in lower case
ToLower(c) ==
  IF \E i \in 1..Len(UpperCase) : UpperCase[i] = c
  THEN LowerCase[CHOOSE i \in 1..Len(UpperCase) : UpperCase[i] = c]
  ELSE c

\* text.toLowerCase()
toLowerCase(text) == [k \in 1..Len(text) |-> ToLower(text[k])]

\* text.includes(word): word stands somewhere in text, character by character
includes(text, word) ==
  \E i \in 0..(Len(text) - Len(word)) : SubSeq(text, i + 1, i + Len(word)) = word

highUrgencyWords ==
  { << "u", "r", "g", "e", "n", "t" >>,
    << "a", "s", "a", "p" >>,
    << "i", "m", "m", "e", "d", "i", "a", "t", "e", "l", "y" >>,
    << "e", "m", "e", "r", "g", "e", "n", "c", "y" >>,
    << "c", "r", "i", "t", "i", "c", "a", "l" >> }

mediumUrgencyWords ==
  { << "s", "o", "o", "n" >>,
    << "t", "o", "d", "a", "y" >>,
    << "t", "h", "i", "s", " ", "w", "e", "e", "k" >>,
    << "i", "m", "p", "o", "r", "t", "a", "n", "t" >> }

\* A classifier that looks for the medium words first
detectUrgencyMediumFirst(text) ==
  IF (\E word \in mediumUrgencyWords : includes(toLowerCase(text), word)) THEN "medium"
  ELSE IF (\E word \in highUrgencyWords : includes(toLowerCase(text), word)) THEN "high"
  ELSE "low"

detectUrgency(text) ==
  IF (\E word \in highUrgencyWords : includes(toLowerCase(text), word)) THEN "high"
  ELSE IF (\E word \in mediumUrgencyWords : includes(toLowerCase(text), word)) THEN "medium"
  ELSE "low"

\* Pieces of the texts classified, and the texts made of up to MaxPieces of
\* them
Pieces ==
  { << "U", "R", "G", "E", "N", "T" >>,
    << "u", "r", "g", "e", "n" >>,
    << "t" >>,
    << "A", "s", "a", "p" >>,
    << "C", "r", "i", "t", "i", "c", "a", "l" >>,
    << "s", "o", "o", "n" >>,
    << "T", "O", "D", "A", "Y" >>,
    << "T", "h", "i", "s", " " >>,
    << "w", "e", "e", "k" >>,
    << "I", "m", "p", "o", "r", "t", "a", "n", "t" >>,
    << "p", "l", "a", "n" >>,
    << "e", "m", "e", "r", "g", "e", "n", "c", "y" >>,
    << "i", "m", "m", "e", "d", "i", "a", "t", "e", "l", "y" >> }

RECURSIVE TextsOf(_)
TextsOf(n) ==
  IF n = 0 THEN { << >> }
  ELSE TextsOf(n - 1) \cup { text \o piece : text \in TextsOf(n - 1), piece \in Pieces }

DetectUrgency ==
  /\ op = "idle"
  /\ \E text \in TextsOf(MaxPieces) :
       Ran("detectUrgency", [text |-> text], Result(detectUrgency(text), << >>))

UrgencyNext ==
  \/ DetectUrgency
  \/ Respond

UrgencySpec == Init /\ [][UrgencyNext]_vars

\* ------------------------------------------------- the broad search, called alone
\* The caps the search is run with: one, the cap of findAlternative, and
\* every window of the search
FindNextAvailableSlots ==
  /\ op = "idle"
  /\ \E originalData \in MeetingData, 
        maxSlots \in {1, AlternativeSlots, SearchDays * (LastHour - FirstHour)} :
       Ran("findNextAvailableSlots", [originalData |-> originalData, maxSlots |-> maxSlots],
           findNextAvailableSlots(originalData, maxSlots))

SearchNext ==
  \/ MailboxChange
  \/ OutageChange
  \/ FindNextAvailableSlots
  \/ Respond

SearchSpec == Init /\ [][SearchNext]_vars

\* ------------------------------------------------- the bot books a meeting
\* What a turn of the bot hands back: the status of the invoke response and
\* the activities it sent, and the provider requests it issued
Turn(statusCode, sent, issued) ==
  Result([statusCode |-> statusCode, sent |-> sent], issued)

ConflictCard(conflicts) == [card |-> "conflictResolution", conflicts |-> conflicts]

\* context.sendActivity(activity), which the channel delivers or not; the
\* apology of the catch goes the same way
Sent(activity, delivered, issued) ==
  IF delivered THEN Turn(200, << activity >>, issued) ELSE Turn(500, << >>, issued)

\* POST /me/events
CreateMeetingRequest(data) ==
  [op |-> "createMeeting", who |-> data.attendees, startTime |-> data.startTime,
   endTime |-> data.endTime]

\* const meeting = await this.graphService.createMeeting(data), and on
CreateMeeting(data, accepted, delivered, issued) ==
  IF accepted
  THEN Sent([card |-> "bookingConfirmation", conflicts |-> << >>], delivered,
            Append(issued, CreateMeetingRequest(data)))
  ELSE Turn(500, IF delivered
                 THEN << [card |-> "Sorry, I couldn't book the meeting.",
                          conflicts |-> << >>] >>
                 ELSE << >>,
            Append(issued, CreateMeetingRequest(data)))

\* A bot that books whatever the detector found
AfterDetectionForced(data, conflicts, accepted, delivered) ==
  CreateMeeting(data, accepted, delivered, conflicts.calls)

\* bookMeeting from the answer of detectConflicts on
AfterDetection(data, conflicts, accepted, delivered) ==
  IF Len(conflicts.value) > 0
  THEN Sent(ConflictCard(conflicts.value), delivered, conflicts.calls)
  ELSE CreateMeeting(data, accepted, delivered, conflicts.calls)

bookMeeting(data, accepted, delivered) ==
  AfterDetection(data, detectConflicts(data), accepted, delivered)

\* Whether a turn has asked the provider to create a meeting
Created(issued) == \E k \in 1..Len(issued) : issued[k].op = "createMeeting"

\* The card action bookMeeting.  A meeting the provider accepts is on the
\* organizer's calendar, and may be on a calendar the detector reads
BookMeeting ==
  /\ op = "idle"
  /\ \E data \in MeetingData, accepted \in BOOLEAN, delivered \in BOOLEAN,
        i \in 0..Len(EventPool) :
       /\ op' = "bookMeeting"
       /\ input' = data
       /\ output' = bookMeeting(data, accepted, delivered).value
       /\ calls' = bookMeeting(data, accepted, delivered).calls
       /\ isInitialized' = (isInitialized \/ Len(bookMeeting(data, accepted, delivered).calls) > 0)
       /\ mailbox' = IF /\ Created(bookMeeting(data, accepted, delivered).calls)
                        /\ accepted /\ i > 0
                     THEN mailbox \cup {i} ELSE mailbox
  /\ UNCHANGED << store, stray, outage, at, inFlight >>

BotNext ==
  \/ MailboxChange
  \/ OutageChange
  \/ StrayChange
  \/ BookMeeting
  \/ Respond

BotSpec == Init /\ [][BotNext]_vars

\* ------------------------------------------------- any directive
\* The directives a card action may carry: the four of the cards, one that
\* no card offers, and none
Directives == Resolutions \cup {"cancel", "undefined"}

ConflictData ==
  { [resolution |-> resolution, originalData |-> originalData] :
      resolution \in Directives, originalData \in MeetingData }
  \cup {Undefined}

ResolveAnyConflict ==
  /\ op = "idle"
  /\ \E conflictData \in ConflictData :
       Ran("resolveConflict", conflictData, resolveConflict(conflictData))

PolicyNext ==
  \/ MailboxChange
  \/ OutageChange
  \/ ResolveAnyConflict
  \/ Respond

PolicySpec == Init /\ [][PolicyNext]_vars

\* ------------------------------------------------- profiles
ProfileNames == 1..MaxProfiles

\* A profile; lastUsed is 0 until the profile has been made active, and the
\* time of that call, 1, afterwards
Profile(name, clientId, isDefault) ==
  [name |-> name, clientId |-> clientId, isDefault |-> isDefault, lastUsed |-> 0]

\* this.store.profiles.findIndex(p => p.name === name), 0 for -1
FindIndex(profiles, name) ==
  IF \E k \in 1..Len(profiles) : profiles[k].name = name
  THEN CHOOSE k \in 1..Len(profiles) :
         /\ profiles[k].name = name
         /\ \A j \in 1..(k - 1) : profiles[j].name # name
  ELSE 0

\* What a call of the manager leaves: the store, and the error it threw
Left(after, threw) == [store |-> after, threw |-> threw]

\* saveProfiles rethrows the error of writeFileSync
saveProfiles(after, written) == Left(after, IF written THEN "none" ELSE "write failed")


createProfile(before, name, clientId, written) ==
  IF FindIndex(before.profiles, name) # 0 THEN Left(before, "already exists")
  ELSE saveProfiles(
         [profiles |-> Append(before.profiles,
                              Profile(name, clientId, Len(before.profiles) = 0)),
          activeProfile |-> IF Len(before.profiles) + 1 = 1 THEN name
                            ELSE before.activeProfile],
         written)

setActiveProfile(before, name, written) ==
  IF FindIndex(before.profiles, name) = 0 THEN Left(before, "not found")
  ELSE saveProfiles(
         [profiles |-> [before.profiles EXCEPT ![FindIndex(before.profiles, name)].lastUsed = 1],
          activeProfile |-> name],
         written)

\* A deletion that leaves the name of the active profile alone
AfterSpliceKeeping(before, name, rest) ==
  [profiles |-> rest, activeProfile |-> before.activeProfile]

\* If the active profile was deleted, the first of the rest, or null
AfterSplice(before, name, rest) ==
  [profiles |-> rest,
   activeProfile |-> IF before.activeProfile = name
                     THEN IF Len(rest) > 0 THEN rest[1].name ELSE NoProfile
                     ELSE before.activeProfile]

\* profiles.splice(index, 1), then the active name, then the save
deleteProfile(before, name, written) ==
  IF FindIndex(before.profiles, name) = 0 THEN Left(before, "not found")
  ELSE saveProfiles(
         AfterSplice(before, name,
                     SubSeq(before.profiles, 1, FindIndex(before.profiles, name) - 1)
                       \o SubSeq(before.profiles, FindIndex(before.profiles, name) + 1,
                                  Len(before.profiles))),
         written)

\* delete updates.name; Object.assign(profile, updates)
Assign(profile, updates) ==
  [f \in DOMAIN profile |->
     IF f \in DOMAIN updates /\ f # "name" THEN updates[f] ELSE profile[f]]

updateProfile(before, name, updates, written) ==
  IF FindIndex(before.profiles, name) = 0 THEN Left(before, "not found")
  ELSE saveProfiles(
         [before EXCEPT !.profiles[FindIndex(before.profiles, name)] =
                          Assign(before.profiles[FindIndex(before.profiles, name)], updates)],
         written)

setDefaultProfile(before, name, written) ==
  IF FindIndex(before.profiles, name) = 0 THEN Left(before, "not found")
  ELSE saveProfiles(
         [profiles |-> [k \in 1..Len(before.profiles) |->
                          [before.profiles[k] EXCEPT
                             !.isDefault = (k = FindIndex(before.profiles, name))]],
          activeProfile |-> name],
         written)

\* The updates a caller may pass: Partial<Profile>
Updates ==
  { [clientId |-> 2], [isDefault |-> TRUE], [isDefault |-> FALSE], [lastUsed |-> 1] }
  \cup { [name |-> n] : n \in ProfileNames }

\* writeFileSync writes the file, or raises (no space, no permission)
WriteOutcomes == << TRUE, FALSE >>

\* A call of the manager has run
Called(name, arg, left) ==
  /\ op' = name
  /\ input' = arg
  /\ output' = left.threw
  /\ store' = left.store
  /\ UNCHANGED << mailbox, stray, outage, isInitialized, calls, at, inFlight >>

CreateProfile ==
  /\ op = "idle"
  /\ \E name \in ProfileNames, clientId \in {1, 2}, w \in DOMAIN WriteOutcomes :
       Called("createProfile", [name |-> name, clientId |-> clientId],
              createProfile(store, name, clientId, WriteOutcomes[w]))

SetActiveProfile ==
  /\ op = "idle"
  /\ \E name \in ProfileNames, w \in DOMAIN WriteOutcomes :
       Called("setActiveProfile", [name |-> name], setActiveProfile(store, name, WriteOutcomes[w]))

DeleteProfile ==
  /\ op = "idle"
  /\ \E name \in ProfileNames, w \in DOMAIN WriteOutcomes :
       Called("deleteProfile", [name |-> name], deleteProfile(store, name, WriteOutcomes[w]))

UpdateProfile ==
  /\ op = "idle"
  /\ \E name \in ProfileNames, updates \in Updates, w \in DOMAIN WriteOutcomes :
       Called("updateProfile", [name |-> name, updates |-> updates],
              updateProfile(store, name, updates, WriteOutcomes[w]))

SetDefaultProfile ==
  /\ op = "idle"
  /\ \E name \in ProfileNames, w \in DOMAIN WriteOutcomes :
       Called("setDefaultProfile", [name |-> name], setDefaultProfile(store, name, WriteOutcomes[w]))

ProfileNext ==
  \/ CreateProfile
  \/ SetActiveProfile
  \/ DeleteProfile
  \/ UpdateProfile
  \/ SetDefaultProfile
  \/ Respond

ProfileSpec == Init /\ [][ProfileNext]_vars

\* ------------------------------------------------- properties
ValidWindow(data) == data.startTime.kind = "iso" /\ data.endTime.kind = "iso"

Ranges(alternatives) == SelectSeq(alternatives, LAMBDA a : a.kind = "range")

IsResolve(resolution) == op = "resolveConflict" /\ input.resolution = resolution

\* The attendees and the candidates of the verified strategies
SearchAttendees ==
  IF op = "suggestOptimalTimes" THEN input.attendees ELSE input.originalData.attendees

VerifiedCandidates ==
  IF op = "suggestOptimalTimes" THEN output
  ELSE IF IsResolve("findAlternative") THEN Ranges(output.alternatives)
  ELSE IF IsResolve("tomorrow")
  THEN IF output.type = "reschedule" THEN output.newTime ELSE Ranges(output.alternatives)
  ELSE << >>

Recheck(attendees, candidate) ==
  detectConflicts([attendees |-> attendees,
                   startTime |-> Iso(candidate.start.v),
                   endTime |-> Iso(candidate.end.v)]).value

\* C1: every candidate of the broad search, of the preferred-hours search and
\* the rescheduled window of the next-day strategy has no conflicts when
\* detectConflicts is run again on that window for the same attendees
\* against the same provider state.
C1_CandidatesConflictFree ==
  op \in {"resolveConflict", "suggestOptimalTimes"} =>
    \A k \in 1..Len(VerifiedCandidates) :
      Recheck(SearchAttendees, VerifiedCandidates[k]) = << >>

\* A broad search that passed over a window with conflicts and still found one
C1_Witness ==
  /\ IsResolve("findAlternative")
  /\ ValidWindow(input.originalData)
  /\ \E k \in 1..(Len(output.alternatives) - 1) :
       /\ output.alternatives[k].kind = "range"
       /\ output.alternatives[k + 1].start.v - output.alternatives[k].start.v
            \in (MinutesPerHour + 1)..(LastHour * MinutesPerHour)

\* The provider's answers to the two lookups the detector makes for an
\* attendee of the pending detectConflicts call
EventsAnswer(attendee) == GetCalendarEvents(attendee, input.startTime, input.endTime)

BusyAnswer(attendee) ==
  CheckTimeSlotAvailability([attendee |-> attendee, startTime |-> input.startTime,
                             endTime |-> input.endTime])

LookupsSucceed(attendee) == EventsAnswer(attendee).ok /\ BusyAnswer(attendee).ok

Attendees == IF IsArray(input.attendees) THEN input.attendees.items ELSE << >>

\* The instants an answer carries, as the detector prints them
Printed(from, to) == << ToLocaleString(NewDate(from)), ToLocaleString(NewDate(to)) >>

\* C2: detectConflicts always returns a list, and whichever attendees' lookups
\* fail, the list holds a meeting conflict for every overlapping event and a
\* busy conflict for every non-free segment the provider returned for each
\* attendee whose two lookups succeeded.
C2_AttendeeIsolation ==
  op = "detectConflicts" =>
    /\ DOMAIN output = 1..Len(output)
    /\ \A i \in 1..Len(Attendees) :
         LookupsSucceed(Attendees[i]) =>
           /\ \A k \in 1..Len(EventsAnswer(Attendees[i]).value) :
                LET event == EventsAnswer(Attendees[i]).value[k]
                IN  (event.start.v < input.endTime.v /\ input.startTime.v < event.end.v) =>
                      \E c \in 1..Len(output) :
                        /\ output[c].attendee = Attendees[i]
                        /\ output[c].type = "meeting"
                        /\ output[c].details = event.subject
           /\ \A k \in 1..Len(BusyAnswer(Attendees[i]).value) :
                LET slot == BusyAnswer(Attendees[i]).value[k]
                IN  slot.freeBusyStatus # "free" =>
                      \E c \in 1..Len(output) :
                        /\ output[c].attendee = Attendees[i]
                        /\ output[c].type = "busy"
                        /\ output[c].time = Printed(slot.start, slot.end)

\* One attendee's lookup failed and another attendee's conflicts are reported
C2_Witness ==
  /\ op = "detectConflicts"
  /\ \E i, j \in 1..Len(Attendees) :
       /\ ~LookupsSucceed(Attendees[i])
       /\ LookupsSucceed(Attendees[j])
       /\ \E c \in 1..Len(output) : output[c].attendee = Attendees[j]

\* C3: every event request of a detectConflicts call asks for the calendar of
\* an attendee of the call, from proposedStart to proposedEnd, and every
\* free/busy request asks for an attendee over the same window.
C3_QueriesNameAttendeeAndWindow ==
  op = "detectConflicts" =>
    \A k \in 1..Len(calls) :
      /\ \E i \in 1..Len(Attendees) : calls[k].who = Attendees[i]
      /\ calls[k].startTime = input.startTime
      /\ calls[k].endTime = input.endTime

\* The number of entries of a sequence that satisfy a test
Count(seq, Test(_)) == Len(SelectSeq(seq, Test))

Occurrences(attendee) == Count(Attendees, LAMBDA a : a = attendee)

\* startA < endB and startB < endA, on instants
Overlaps(startA, endA, startB, endB) ==
  /\ startA.kind = "iso" /\ endA.kind = "iso" /\ startB.kind = "iso" /\ endB.kind = "iso"
  /\ startA.v < endB.v /\ startB.v < endA.v

\* C5: for an attendee whose two lookups succeed, the result holds one meeting
\* conflict for each returned event that overlaps the proposed window and
\* none for the others, and one busy conflict for each returned segment that
\* is not free; that is so for every occurrence of the attendee in the list.
C5_OneConflictPerOverlapAndBusySegment ==
  op = "detectConflicts" =>
    \A i \in 1..Len(Attendees) :
      LookupsSucceed(Attendees[i]) =>
        LET mine(type) == SelectSeq(output, LAMBDA c : c.attendee = Attendees[i] /\ c.type = type)
            events == SelectSeq(EventsAnswer(Attendees[i]).value,
                                LAMBDA e : Overlaps(input.startTime, input.endTime, e.start, e.end))
            segments == SelectSeq(BusyAnswer(Attendees[i]).value,
                                  LAMBDA g : g.freeBusyStatus \in {"busy", "tentative", "outOfOffice"})
            free == SelectSeq(BusyAnswer(Attendees[i]).value,
                              LAMBDA g : g.freeBusyStatus = "free")
        IN  /\ Len(mine("meeting")) = Occurrences(Attendees[i]) * Len(events)
            /\ \A k \in 1..Len(events) :
                 Count(mine("meeting"), LAMBDA c : c.details = events[k].subject)
                   = Occurrences(Attendees[i])
            /\ Len(mine("busy")) = Occurrences(Attendees[i]) * Len(segments)
            /\ Len(segments) + Len(free) = Len(BusyAnswer(Attendees[i]).value)
            /\ (Len(events) = 0 /\ Len(segments) = 0) =>
                 \A c \in 1..Len(output) : output[c].attendee # Attendees[i]

\* An attendee for whom the provider returned an overlapping event, an event
\* that ends where the window starts, and a busy segment
C5_Witness ==
  /\ op = "detectConflicts"
  /\ \E i \in 1..Len(Attendees) :
       /\ LookupsSucceed(Attendees[i])
       /\ \E k \in 1..Len(EventsAnswer(Attendees[i]).value) :
            EventsAnswer(Attendees[i]).value[k].end = input.startTime
       /\ \E c \in 1..Len(output) :
            output[c].attendee = Attendees[i] /\ output[c].type = "meeting"
       /\ \E c \in 1..Len(output) :
            output[c].attendee = Attendees[i] /\ output[c].type = "busy"

\* Walks the conflicts along the attendee list: the conflicts of attendee i,
\* meetings first, then those of a later attendee
RECURSIVE Follows(_, _, _, _)
Follows(conflicts, k, i, busySeen) ==
  IF k > Len(conflicts) THEN TRUE
  ELSE IF i > Len(Attendees) THEN FALSE
  ELSE IF conflicts[k].attendee = Attendees[i]
          /\ ~(busySeen /\ conflicts[k].type = "meeting")
       THEN Follows(conflicts, k + 1, i, conflicts[k].type = "busy")
       ELSE Follows(conflicts, k, i + 1, FALSE)

\* C6: the conflicts come attendee by attendee in the order of the attendee
\* list, and for each attendee the meeting conflicts before the busy ones.
C6_ConflictOrder ==
  op = "detectConflicts" => Follows(output, 1, 1, FALSE)

\* Two different attendees with conflicts, the first with both kinds
C6_Witness ==
  /\ op = "detectConflicts"
  /\ Len(Attendees) >= 2
  /\ Attendees[1] # Attendees[2]
  /\ \E c, d, e \in 1..Len(output) :
       /\ c < d /\ d < e
       /\ output[c].attendee = Attendees[1] /\ output[c].type = "meeting"
       /\ output[d].attendee = Attendees[1] /\ output[d].type = "busy"
       /\ output[e].attendee = Attendees[2]

\* C4: the broad search returns at most the number of slots it was asked
\* for (3 after a conflicting next day, 5 for findAlternative), also when it
\* ends in its catch, and the preferred-hours search returns at most 3.
C4_BoundedResultCount ==
  /\ IsResolve("tomorrow") => Len(output.alternatives) <= NextDaySlots
  /\ IsResolve("findAlternative") => Len(output.alternatives) <= AlternativeSlots
  /\ op = "suggestOptimalTimes" => Len(output) <= OptimalSlots

\* A broad search that stopped at its cap of 5 on the first day
C4_Witness ==
  /\ IsResolve("findAlternative")
  /\ Len(output.alternatives) = AlternativeSlots
  /\ output.alternatives[AlternativeSlots].start.v
       < AddDays(NewDate(input.originalData.startTime), 1)

\* The window of the request moved by a number of minutes
Shifted(minutes) ==
  [input.originalData EXCEPT !.startTime = Iso(input.originalData.startTime.v + minutes),
                             !.endTime = Iso(input.originalData.endTime.v + minutes)]

LocalTime(t) == [kind |-> "locale", v |-> t]

\* C7: 'move1hour' checks the window 60 minutes later and nothing else; with
\* no conflicts there the outcome is a reschedule to exactly that window,
\* otherwise it offers the two start times 120 and 180 minutes after the
\* original start.
C7_OffsetDirective ==
  (IsResolve("move1hour") /\ ValidWindow(input.originalData)) =>
    LET check == detectConflicts(Shifted(60))
        start == input.originalData.startTime.v
        end == input.originalData.endTime.v
    IN  /\ calls = check.calls
        /\ Len(calls) <= 2 * Len(input.originalData.attendees.items)
        /\ IF check.value = << >>
           THEN /\ output.type = "reschedule"
                /\ output.newTime
                     = << [kind |-> "range", start |-> LocalTime(start + 60),
                           end |-> LocalTime(end + 60)] >>
                /\ output.alternatives = << >>
           ELSE /\ output.type = "alternative"
                /\ Len(output.alternatives) = 2
                /\ output.alternatives[1].start = LocalTime(start + 120)
                /\ output.alternatives[2].start = LocalTime(start + 180)
                /\ output.newTime = << >>

\* The shifted window had conflicts and the two later times were offered
C7_Witness ==
  /\ IsResolve("move1hour")
  /\ ValidWindow(input.originalData)
  /\ output.type = "alternative"
  /\ Len(calls) > 0

\* C8: 'tomorrow' checks the same time of day one calendar day later, also
\* when that day is a Saturday or a Sunday; with no conflicts there the
\* outcome is a reschedule to that window, otherwise it offers what the broad
\* search finds, at most 3.
C8_NextDayDirective ==
  (IsResolve("tomorrow") /\ ValidWindow(input.originalData)) =>
    LET check == detectConflicts(Shifted(MinutesPerDay))
        start == input.originalData.startTime.v
        end == input.originalData.endTime.v
        search == findNextAvailableSlots(input.originalData, NextDaySlots)
    IN  IF check.value = << >>
        THEN /\ calls = check.calls
             /\ output.type = "reschedule"
             /\ output.newTime
                  = << [kind |-> "range", start |-> LocalTime(start + MinutesPerDay),
                        end |-> LocalTime(end + MinutesPerDay)] >>
        ELSE /\ calls = check.calls \o search.calls
             /\ output.type = "alternative"
             /\ output.alternatives = search.value
             /\ Len(output.alternatives) <= 3

\* A Friday meeting rescheduled to Saturday
C8_Witness ==
  /\ IsResolve("tomorrow")
  /\ ValidWindow(input.originalData)
  /\ output.type = "reschedule"
  /\ GetDay(output.newTime[1].start.v) = 6
  /\ Len(calls) > 0

\* C9: 'findAlternative' runs the broad search with a cap of 5; the outcome
\* offers alternatives when the search found some and is a different
\* outcome, no alternatives found, when it found none.
C9_FindAlternativesOutcome ==
  (IsResolve("findAlternative") /\ ValidWindow(input.originalData)) =>
    /\ output.alternatives = findNextAvailableSlots(input.originalData, AlternativeSlots).value
    /\ Len(output.alternatives) >= 1 => output.type = "alternative"
    /\ Len(output.alternatives) = 0 =>
         /\ output.type # "alternative"
         /\ output.message # "Found these alternative time slots when everyone is available:"

\* C10: 'force' issues no provider request and returns the outcome force.
C10_ForceDirective ==
  IsResolve("force") =>
    /\ calls = << >>
    /\ output.type = "force"
    /\ output.message = "Meeting will be scheduled despite conflicts"
    /\ output.newTime = << >>
    /\ output.alternatives = << >>

\* A forced request whose window has a conflict for its attendees
C10_Witness ==
  /\ IsResolve("force")
  /\ ValidWindow(input.originalData)
  /\ detectConflicts(input.originalData).value # << >>

\* The windows of the broad search in chronological order: the 7 days from
\* the day of the request's start, the 9 hourly starts 09:00..17:00 of each,
\* every window as long as the request's
GridWindow(data, n) ==
  LET day == (data.startTime.v \div 1440) + ((n - 1) \div 9)
      start == day * 1440 + (9 + ((n - 1) % 9)) * 60
  IN  << start, start + (data.endTime.v - data.startTime.v) >>

GridSize == SearchDays * (LastHour - FirstHour)

GridCheck(data, n) ==
  detectConflicts([data EXCEPT !.startTime = Iso(GridWindow(data, n)[1]),
                               !.endTime = Iso(GridWindow(data, n)[2])])

\* What detectConflicts gives for the first n windows of the grid
GridResults(data, n) == [k \in 1..n |-> GridCheck(data, k)]

\* The place in the grid of a window the search offers, 0 for any other text
GridIndex(data, a) ==
  IF a.kind # "range" THEN 0
  ELSE LET n == ((a.start.v \div 1440) - (data.startTime.v \div 1440)) * 9
                  + ((a.start.v % 1440) \div 60) - 8
       IN  IF /\ n \in 1..GridSize
              /\ a.start.v = GridWindow(data, n)[1]
              /\ a.end.v = GridWindow(data, n)[2]
           THEN n ELSE 0

RECURSIVE GridCalls(_, _)
GridCalls(results, n) ==
  IF n = 0 THEN << >> ELSE GridCalls(results, n - 1) \o results[n].calls

\* The search with a cap has offered the windows without conflicts among
\* those from the first to the one it stopped at, earliest first
InSearchOrder(data, offered, cap, results) ==
  /\ Len(offered) <= cap
  /\ \A k \in 1..Len(offered) : GridIndex(data, offered[k]) \in 1..Len(results)
  /\ \A k \in 1..(Len(offered) - 1) :
       GridIndex(data, offered[k]) < GridIndex(data, offered[k + 1])
  /\ \A n \in 1..Len(results) :
       (results[n].value = << >>) <=> (\E k \in 1..Len(offered) : GridIndex(data, offered[k]) = n)

\* The last window a search with that cap examined, given what it offers
LastExamined(data, offered, cap) ==
  IF Len(offered) >= cap /\ cap > 0 /\ GridIndex(data, offered[cap]) > 0
  THEN GridIndex(data, offered[cap]) ELSE GridSize

PreferredWindow(n) ==
  LET day == (input.now \div 1440) + ((n - 1) \div 3)
      start == day * 1440 + << 10, 14, 16 >>[((n - 1) % 3) + 1] * 60
  IN  << start, start + input.duration >>

\* 1970-01-01 is a Thursday: days 2 and 3 are a Saturday and a Sunday
OnWeekend(t) == (t \div 1440) % 7 \in {2, 3}

\* Those of them that are on a weekday
PreferredWeekdays ==
  SelectSeq([n \in 1..15 |-> n], LAMBDA n : ~OnWeekend(PreferredWindow(n)[1]))

PreferredCheck(n) ==
  detectConflicts([attendees |-> input.attendees,
                   startTime |-> Iso(PreferredWindow(n)[1]),
                   endTime |-> Iso(PreferredWindow(n)[2])])

\* The positions in PreferredWeekdays of the windows without conflicts
PreferredFree ==
  SelectSeq([k \in 1..Len(PreferredWeekdays) |-> k],
            LAMBDA k : PreferredCheck(PreferredWeekdays[k]).value = << >>)

RECURSIVE PreferredCalls(_, _)
PreferredCalls(weekdays, k) ==
  IF k = 0 THEN << >>
  ELSE PreferredCalls(weekdays, k - 1) \o PreferredCheck(weekdays[k]).calls

Offered ==
  IF op = "resolveConflict" /\ input.resolution \in {"tomorrow", "findAlternative"}
  THEN Ranges(output.alternatives) ELSE << >>

\* C13: every slot of the hourly slot generation and every candidate of the
\* broad search ends at or before the end of the business window of its day
\* (18:00 for the broad search) and no two slots of one day overlap.
C13_NoPartialTrailingSlot ==
  /\ op = "generateTimeSlots" =>
       \A k \in 1..Len(output) :
         output[k] + input.intervalMinutes
           <= (input.date \div 1440) * 1440 + input.endHour * 60
  /\ \A k \in 1..Len(Offered) :
       /\ Offered[k].end.v >= Offered[k].start.v
       /\ Offered[k].end.v <= (Offered[k].start.v \div 1440) * 1440 + 18 * 60
       /\ \A j \in 1..(k - 1) :
            \/ Offered[j].end.v <= Offered[k].start.v
            \/ Offered[k].end.v <= Offered[j].start.v

\* A window that ends at or before its start
BackwardWindow(data) == ValidWindow(data) /\ data.endTime.v <= data.startTime.v

NoAttendees(data) == IsArray(data.attendees) /\ data.attendees.items = << >>

\* C14: a request whose window ends at or before its start, or a search for
\* an empty attendee list, is rejected before any provider request is issued:
\* detectConflicts and resolveConflict issue no request for it and
\* resolveConflict hands back none of its outcomes.
C14_InvalidRequestRejected ==
  /\ (op = "detectConflicts" /\ BackwardWindow(input)) => calls = << >>
  /\ (op = "resolveConflict" /\ input.resolution # "force"
        /\ (BackwardWindow(input.originalData) \/ NoAttendees(input.originalData))) =>
       /\ calls = << >>
       /\ output.type \notin {"reschedule", "alternative", "force"}

Handlers == {"detectConflicts", "resolveConflict", "suggestOptimalTimes"}

ReadOperations == {"getCalendarEvents", "checkTimeSlotAvailability"}

\* C15: a run of detectConflicts, resolveConflict or suggestOptimalTimes
\* leaves the calendars as they were and issues only read requests.
C15_ReadOnly ==
  [][(op = "idle" /\ op' \in Handlers) =>
       /\ mailbox' = mailbox
       /\ \A k \in 1..Len(calls') : calls'[k].op \in ReadOperations]_vars

\* A reschedule to the next day, checked against a calendar with events
C15_Witness ==
  /\ IsResolve("tomorrow")
  /\ output.type = "reschedule"
  /\ mailbox # {}
  /\ \E k \in 1..Len(calls) : calls[k].op = "checkTimeSlotAvailability"

C17_StrictOverlap ==
  (/\ op = "hasTimeOverlap"
   /\ input.start1.kind = "iso" /\ input.end1.kind = "iso"
   /\ input.start2.kind = "iso" /\ input.end2.kind = "iso") =>
    /\ output = (input.start1.v < input.end2.v /\ input.start2.v < input.end1.v)
    /\ output = hasTimeOverlap(input.start2, input.end2, input.start1, input.end1)
    /\ (/\ input.start1.v < input.end1.v
        /\ input.end1 = input.start2
        /\ input.start2.v < input.end2.v) => output = FALSE

\* Two back-to-back intervals were tested, and two that overlap
C17_Witness ==
  /\ op = "hasTimeOverlap"
  /\ input.start1.kind = "iso" /\ input.end2.kind = "iso"
  /\ input.start1.v < input.end1.v
  /\ input.end1 = input.start2
  /\ input.start2.v < input.end2.v
  /\ output = FALSE
  /\ hasTimeOverlap(input.start1, input.end2, input.start2, input.end2)

\* The provider is unavailable for a lookup of the attendee
Unavailable(attendee) == \E l \in outage : l[2] = attendee.v

\* C18: when a lookup of an attendee fails, what detectConflicts returns
\* names that attendee, so that the caller can tell an attendee who could
\* not be checked from one who has no conflicts.
C18_WarningOnFailedLookup ==
  (op = "detectConflicts" /\ ValidWindow(input) /\ input.startTime.v < input.endTime.v) =>
    \A i \in 1..Len(Attendees) :
      Unavailable(Attendees[i]) =>
        \E c \in 1..Len(output) : output[c].attendee = Attendees[i]

\* The broad search of the pending call found every window in conflict
SearchSpaceEmpty ==
  /\ op = "resolveConflict"
  /\ ValidWindow(input.originalData)
  /\ \/ input.resolution = "findAlternative"
     \/ input.resolution = "tomorrow" /\ output.type = "alternative"
  /\ \A n \in 1..GridSize : GridCheck(input.originalData, n).value # << >>

\* C19: a broad search that has tried all 63 windows of its 7 days and found
\* a conflict in each returns the empty list: no placeholder entry and no
\* exception (which resolveConflict would turn into the outcome force).
C19_EmptySearchSpace ==
  SearchSpaceEmpty =>
    /\ output.alternatives = << >>
    /\ output.type = "alternative"
    /\ input.resolution = "findAlternative" =>
         calls = GridCalls(GridResults(input.originalData, GridSize), GridSize)

\* Such a search for an attendee whose calendar is full
C19_Witness ==
  /\ SearchSpaceEmpty
  /\ input.resolution = "findAlternative"
  /\ Len(input.originalData.attendees.items) = 1
  /\ Len(calls) >= GridSize

\* Whether a sequence is the beginning of another
IsPrefix(short, long) ==
  Len(short) <= Len(long) /\ \A k \in 1..Len(short) : short[k] = long[k]

\* C20: while detectConflicts runs, no request but the one issued last is
\* awaiting its answer; a free/busy request is issued after the answer to
\* the same attendee's event request, and the requests follow the attendee
\* list: an attendee's requests are all answered before the next one's first.
C20_SequentialCalls ==
  op = "detectConflicts" =>
    /\ inFlight \subseteq {Len(calls)}
    /\ Cardinality(inFlight) <= 1
    /\ IsPrefix(calls, detectConflicts(input).calls)
    /\ at.phase \in {"awaitEvents", "awaitAvailability"} => inFlight = {Len(calls)}
    /\ at.phase = "awaitAvailability" =>
         /\ calls[Len(calls)]
              = AvailabilityRequest(input.attendees.items[at.i], input.startTime, input.endTime)
         /\ calls[Len(calls) - 1]
              = EventsRequest(input.attendees.items[at.i], input.startTime, input.endTime)
    /\ at.phase = "returned" =>
         /\ inFlight = {}
         /\ calls = detectConflicts(input).calls
         /\ output = detectConflicts(input).value

\* The second attendee's free/busy request is awaiting its answer, after
\* three answered requests
C20_Witness ==
  /\ op = "detectConflicts"
  /\ at.phase = "awaitAvailability"
  /\ at.i = 2
  /\ Len(calls) = 4
  /\ inFlight = {4}

\* The hour of the day a caller means: the one given, or the default of the
\* business window
HourMeant(argument, default) == IF argument = -2 THEN default ELSE argument

\* C21: getBusinessHours returns the window of the date's day from
\* startHour:00 to endHour:00, from 09:00 to 18:00 when the caller gives no
\* hours.
C21_BusinessWindow ==
  op = "getBusinessHours" =>
    /\ output.start = (input.date \div 1440) * 1440 + HourMeant(input.startHour, 9) * 60
    /\ output.end = (input.date \div 1440) * 1440 + HourMeant(input.endHour, 18) * 60

\* C22: resolve_conflicts with its documented arguments, while no lookup of
\* the provider fails, returns a response without the error flag: the list
\* of options, or the message that no alternative was found.
C22_ResolveConflictsTool ==
  (/\ op = "callTool"
   /\ input.name = resolve_conflicts
   /\ IsArray(input.arguments.attendeeEmails)
   /\ outage = {}) =>
    /\ ~output.isError
    /\ output.text.kind \in {"options", "none found"}

\* What the handler of the called tool did with the arguments
HandlerRaised ==
  IF input.name = resolve_conflicts THEN handleResolveConflicts(input.arguments).threw
  ELSE input.outcome.threw

\* C23: the tool-call handler answers every call with a response, and the
\* response carries the error flag and a 'Failed to execute <tool>' text
\* whenever the tool is not registered or its handler raised an exception.
C23_ToolCallAnswered ==
  op = "callTool" =>
    /\ DOMAIN output = {"text", "isError"}
    /\ (input.name \notin RegisteredTools \/ HandlerRaised) =>
         /\ output.isError
         /\ output.text.base = "Failed to execute"
         /\ output.text.tool.parts = input.name.parts

C23_Witness ==
  /\ op = "callTool"
  /\ input.name \in UnknownTools
  /\ Len(input.name.parts) = 3
  /\ output.isError
  /\ output.text.tool.seps = << " ", "_" >>

\* The same letter, in either case
SameLetter(a, b) ==
  a = b \/ \E i \in 1..Len(UpperCase) : {a, b} = {UpperCase[i], LowerCase[i]}

\* text contains word, whatever the case of its letters
Contains(text, word) ==
  \E i \in 0..(Len(text) - Len(word)) :
    \A k \in 1..Len(word) : SameLetter(text[i + k], word[k])

ContainsAny(text, words) == \E word \in words : Contains(text, word)

\* C24: detectUrgency answers high when the text contains a high-urgency
\* keyword, whatever else it contains; medium when it contains no high
\* keyword and a medium one; low otherwise; letter case plays no part.
C24_UrgencyPrecedence ==
  op = "detectUrgency" =>
    output = IF ContainsAny(input.text, highUrgencyWords) THEN "high"
             ELSE IF ContainsAny(input.text, mediumUrgencyWords) THEN "medium"
             ELSE "low"

C24_Witness ==
  /\ op = "detectUrgency"
  /\ ContainsAny(input.text, highUrgencyWords)
  /\ ContainsAny(input.text, mediumUrgencyWords)
  /\ input.text # toLowerCase(input.text)
  /\ output = "high"

\* The conflicts the two answers of the provider hold for an attendee of the
\* pending detectConflicts call
OverlappingEvents(attendee) ==
  Count(EventsAnswer(attendee).value,
        LAMBDA event : Overlaps(input.startTime, input.endTime, event.start, event.end))

BusySegments(attendee) ==
  Count(BusyAnswer(attendee).value, LAMBDA slot : slot.freeBusyStatus # "free")

Reported(attendee) == Count(output, LAMBDA conflict : conflict.attendee = attendee)

\* C25: an attendee contributes the complete list of both lookups or nothing:
\* when the event lookup succeeds and the free/busy lookup fails, none of the
\* attendee's conflicts is reported, the overlapping meetings included.
C25_AllOrNothing ==
  op = "detectConflicts" =>
    \A i \in 1..Len(Attendees) :
      /\ (EventsAnswer(Attendees[i]).ok /\ ~BusyAnswer(Attendees[i]).ok) =>
           Reported(Attendees[i]) = 0
      /\ Reported(Attendees[i]) =
           IF LookupsSucceed(Attendees[i])
           THEN Occurrences(Attendees[i])
                  * (OverlappingEvents(Attendees[i]) + BusySegments(Attendees[i]))
           ELSE 0

\* Overlapping meetings were found, the free/busy lookup failed, and the
\* attendee is absent from the result
C25_Witness ==
  /\ op = "detectConflicts"
  /\ ValidWindow(input)
  /\ \E i \in 1..Len(Attendees) :
       /\ EventsAnswer(Attendees[i]).ok
       /\ OverlappingEvents(Attendees[i]) > 0
       /\ Unavailable(Attendees[i])
       /\ ~BusyAnswer(Attendees[i]).ok
       /\ Reported(Attendees[i]) = 0

\* Every attendee of the pending search has a lookup the provider fails
AllUnavailable(data) ==
  /\ IsArray(data.attendees)
  /\ \A i \in 1..Len(data.attendees.items) : Unavailable(data.attendees.items[i])

\* The first n windows of the grid, as the search prints them
FirstWindows(data, n) ==
  [k \in 1..n |-> Range(GridWindow(data, k)[1], GridWindow(data, k)[2])]

\* C26: when a lookup fails for every attendee throughout a broad search
\* with cap N, the search returns exactly the first N hourly windows, from
\* 09:00 of day offset 0 on, whatever events are on the calendars.
C26_FailedLookupLooksFree ==
  (/\ op = "findNextAvailableSlots"
   /\ ValidWindow(input.originalData)
   /\ AllUnavailable(input.originalData)) =>
    output = FirstWindows(input.originalData, input.maxSlots)

\* Such a search for an attendee whose calendar is full all week
C26_Witness ==
  /\ op = "findNextAvailableSlots"
  /\ ValidWindow(input.originalData)
  /\ AllUnavailable(input.originalData)
  /\ input.originalData.attendees.items = << Email(1) >>
  /\ 3 \in mailbox
  /\ input.maxSlots = GridSize
  /\ Len(output) = GridSize
  /\ calls # << >>

StrategyDirectives == {"move1hour", "tomorrow", "findAlternative"}

\* The strategy of the pending resolveConflict call raised an exception: its
\* window could not be moved, or there was nothing to take the directive from
StrategyRaised ==
  \/ input = Undefined
  \/ /\ input # Undefined
     /\ input.resolution \in {"move1hour", "tomorrow"}
     /\ ~ValidWindow(input.originalData)

\* C28: resolveConflict always returns an outcome; for a directive outside
\* move1hour, tomorrow and findAlternative, a missing one included, the
\* outcome is force and no provider request is issued; an exception of a
\* strategy becomes the outcome force, 'Unable to resolve conflicts
\* automatically'.
C28_ForceFallback ==
  op = "resolveConflict" =>
    /\ output.type \in {"reschedule", "alternative", "force"}
    /\ (input # Undefined /\ input.resolution \notin StrategyDirectives) =>
         /\ output.type = "force"
         /\ calls = << >>
    /\ StrategyRaised =>
         /\ output.type = "force"
         /\ output.message = "Unable to resolve conflicts automatically"

\* A missing directive, for a meeting that has conflicts
C28_Witness ==
  /\ op = "resolveConflict"
  /\ input # Undefined
  /\ input.resolution = "undefined"
  /\ ValidWindow(input.originalData)
  /\ detectConflicts(input.originalData).value # << >>
  /\ output.type = "force"
  /\ calls = << >>

ManagerCalls ==
  {"createProfile", "deleteProfile", "setActiveProfile", "setDefaultProfile", "updateProfile"}

InStore(name) == \E k \in 1..Len(store.profiles) : store.profiles[k].name = name

\* C29: after any sequence of calls of the manager from the empty store,
\* activeProfile is null exactly when the store has no profile and names a
\* profile of the store otherwise; a call that throws 'already exists' or
\* 'not found' leaves the store as it was.
C29_ActiveProfile ==
  /\ [](/\ (store.activeProfile = NoProfile) <=> (store.profiles = << >>)
        /\ store.activeProfile # NoProfile => InStore(store.activeProfile))
  /\ [][(op' \in ManagerCalls /\ output' \in {"already exists", "not found"}) =>
          store' = store]_vars

\* The active profile was deleted and the first of the rest took its place
C29_Witness ==
  /\ op = "deleteProfile"
  /\ output = "none"
  /\ store.activeProfile # NoProfile
  /\ store.activeProfile # input.name
  /\ store.profiles[1].name = store.activeProfile
  /\ store.profiles[1].lastUsed = 0
  /\ ~store.profiles[1].isDefault

\* C30: after any sequence of calls of the manager from the empty store, at
\* most one profile of the store has isDefault = true.
C30_OneDefault ==
  Cardinality({ k \in 1..Len(store.profiles) : store.profiles[k].isDefault }) <= 1

====
